---- MODULE Spec2Model ----
(***************************************************************************)
(* Invoice numbering and payment application of FaturaYoneticim:           *)
(* server/routes.ts (the HTTP handlers) over server/storage.ts             *)
(* (PostgreSQLStorage, the storage the server exports) and the tables of   *)
(* shared/schema.ts.  Every await of a handler is a separate step, so the  *)
(* handlers of concurrent requests interleave at their store round trips.  *)
(***************************************************************************)
EXTENDS Integers, Sequences, FiniteSets, TLC

(* ------------------------------ bounds -------------------------------- *)

\* requests issued by the clients in one behaviour
MaxCalls == 3

\* requests issued in the behaviours where one client sends them in turn
MaxSeqCalls == 4

\* requests issued in the behaviours of one tenant's creates
MaxOrderCalls == 4

\* storage.ts:552
maxRetries == 10

Users == {"u1", "u2"}
Procs == {"p1", "p2", "p3"}
Years == {2025, 2026}
Amounts == {3}
PayAmounts == {1, 2}
UpdateAmounts == {2}
ExpenseAmounts == {1}
Categories == {"Kira", "Yemek", "constructor"}
Times == {1, 2}

\* dates in half days: the day the reports page is opened, and due dates
\* from a day ahead of it to 21 days before it
DayMs == 2
Today == 100
NoDate == 0 - 1
DueDates == {NoDate, 102, 99, 98, 81, 80, 59, 58}
Months == {1, 12}

(* --------------------------- invoice numbers -------------------------- *)

\* An invoice number "FT-<year>-<suffix>" is the pair of its year and the
\* digits of its suffix; NoNumber is the absent (or empty) number.
NoNumber == [year |-> 0, digits |-> <<>>]

\* numbers a caller supplies: unpadded, padded, and one past the next
ExplicitSuffixes == {<<1>>, <<0, 0, 2>>}
ExplicitNumbers == {[year |-> y, digits |-> d] : y \in Years, d \in ExplicitSuffixes}

\* unpadded numbers of the first year
UnpaddedNumbers == {[year |-> 2025, digits |-> d] : d \in {<<1>>, <<2>>}}

RECURSIVE toString(_)
\* Number.prototype.toString of a non-negative integer
toString(n) == IF n < 10 THEN <<n>> ELSE toString(n \div 10) \o <<n % 10>>

RECURSIVE padStart(_, _)
\* String.prototype.padStart(len, '0')
padStart(ds, len) == IF Len(ds) >= len THEN ds ELSE padStart(<<0>> \o ds, len)

RECURSIVE parseInt(_)
\* parseInt(s, 10) of a string of digits
parseInt(ds) ==
  IF Len(ds) = 0 THEN 0
  ELSE 10 * parseInt(SubSeq(ds, 1, Len(ds) - 1)) + ds[Len(ds)]

\* `${yearPrefix}${nextNumber.toString().padStart(3, '0')}`
formatInvoiceNumber(currentYear, nextNumber) ==
  [year |-> currentYear, digits |-> padStart(toString(nextNumber), 3)]

\* number.split('-')[3], which no number has
numberPartPastEnd(number) == 0

\* numberPart ? parseInt(numberPart, 10) : 0, numberPart = number.split('-')[2]
numberPart(number) == IF number.digits = <<>> THEN 0 ELSE parseInt(number.digits)

\* CAST(SUBSTRING(number, 9) AS INTEGER)
castSuffix(number) == parseInt(number.digits)

\* WHERE number LIKE yearPrefix || '%'
yearRowsMissingTenant(rows, userId, currentYear) ==
  {i \in rows : i.number.year = currentYear}

\* WHERE user_id = userId AND number LIKE 'FT-%'
yearRowsAnyYear(rows, userId, currentYear) ==
  {i \in rows : i.userId = userId}

yearRows(rows, userId, currentYear) ==
  {i \in rows : i.userId = userId /\ i.number.year = currentYear}

\* ... ORDER BY CAST(SUBSTRING(number, 9) AS INTEGER) ASC LIMIT 1
latestInvoiceAscending(rows, userId, currentYear) ==
  LET rs == {i \in rows : i.userId = userId /\ i.number.year = currentYear}
  IN {i \in rs : \A j \in rs : castSuffix(i.number) <= castSuffix(j.number)}

\* WHERE user_id = userId AND number LIKE yearPrefix || '%'; then
\* ORDER BY CAST(SUBSTRING(number, 9) AS INTEGER) DESC LIMIT 1: the rows the
\* query may return (ties are the store's choice)
latestInvoice(rows, userId, currentYear) ==
  LET rs == yearRows(rows, userId, currentYear)
  IN {i \in rs : \A j \in rs : castSuffix(j.number) <= castSuffix(i.number)}

(* ------------------------------ the store ------------------------------ *)

\* unique("user_invoice_number").on(userId, number): does the insert of
\* (userId, number) violate it?
noConstraint(rows, userId, number) == FALSE

userInvoiceNumber(rows, userId, number) ==
  \E i \in rows : i.userId = userId /\ i.number = number

\* where(eq(id, id)): the tenant is not part of the condition
rowsAnyTenant(rows, id, userId) == {r \in rows : r.id = id}

\* getInvoice: the rows with this id that belong to the tenant
getInvoice(rows, id, userId) == {i \in rows : i.id = id /\ i.userId = userId}

\* getCustomer: where(and(eq(customers.id, id), eq(customers.userId, userId)))
getCustomer(rows, id, userId) == {c \in rows : c.id = id /\ c.userId = userId}

\* getExpense: where(and(eq(expenses.id, id), eq(expenses.userId, userId)))
getExpense(rows, id, userId) == {e \in rows : e.id = id /\ e.userId = userId}

\* getInvoicesByCustomer: where(and(eq(customerId), eq(userId)))
getInvoicesByCustomer(rows, customerId, userId) ==
  {i \in rows : i.customerId = customerId /\ i.userId = userId}

\* select().from(payments).where(eq(payments.invoiceId, invoiceId))
paymentsOf(rows, invoiceId) == {q \in rows : q.invoiceId = invoiceId}

(* ------------------------------- errors -------------------------------- *)

\* An error is the set of phrases its message includes, and for a store
\* error the SQLSTATE code and whether its detail names the constraint.
NoError == [kind |-> "none", message |-> "", code |-> "", detailNamesConstraint |-> FALSE]

uniqueViolation(named) ==
  [kind |-> "Error", message |-> "duplicate key value violates unique constraint",
   code |-> "23505", detailNamesConstraint |-> named]

unableToGenerate ==
  [kind |-> "Error", message |-> "Unable to generate unique invoice number",
   code |-> "", detailNamesConstraint |-> FALSE]

\* createInvoice's "Secilen musteri bulunamadi"
customerNotFound ==
  [kind |-> "Error", message |-> "Secilen musteri bulunamadi",
   code |-> "", detailNamesConstraint |-> FALSE]

\* the store's error for a violated foreign key
foreignKeyViolation ==
  [kind |-> "Error", message |-> "foreign key", code |-> "23503", detailNamesConstraint |-> FALSE]

\* error?.code === '23505' && error?.detail?.includes('user_invoice_number')
isNumberCollision(error) == error.code = "23505" /\ error.detailNamesConstraint

\* a response: the HTTP status and the error text, and for the record the
\* kind of request it answers and the inserts createInvoice attempted
NoResponse == [status |-> 0, error |-> "", for |-> "none", attempts |-> 0]

\* the catch of POST /api/invoices
invoiceErrorResponse(error) ==
  [NoResponse EXCEPT
     !.status = CASE error.kind = "ZodError" -> 400
                  [] error.message = "Unable to generate unique invoice number" -> 500
                  [] error.message = "Secilen musteri bulunamadi" -> 400
                  [] error.message = "foreign key" -> 400
                  [] OTHER -> 500,
     !.error = CASE error.kind = "ZodError" -> "Gecersiz fatura verisi"
                 [] error.message = "Unable to generate unique invoice number" ->
                      "Fatura numarasi olusturulurken hata olustu"
                 [] error.message = "Secilen musteri bulunamadi" -> "Secilen musteri bulunamadi"
                 [] error.message = "foreign key" -> "Secilen musteri bulunamadi"
                 [] OTHER -> "Fatura olusturulurken hata olustu"]

(* ------------------------------- state --------------------------------- *)

VARIABLES
  invoices,     \* the invoices table
  payments,     \* the payments table
  nextId,       \* the next id gen_random_uuid() hands out
  now,          \* the year of the server's clock
  pc,           \* per request slot: the await its handler is at
  req,          \* per request slot: the request being handled
  loc,          \* per request slot: the handler's local variables
  resp,         \* per request slot: the response sent for the last request
  calls,        \* requests issued so far
  issuedLog,    \* history: the invoices created, in the order the creates returned
  deletedNums,  \* history: (tenant, number) of every invoice deleted
  customers,    \* the customers table
  expenses,     \* the expenses table
  dash,         \* per request slot: the body of the last dashboard response
  categoryTotals, \* per request slot: the body of the last expenses-by-category response
  agingData,    \* per request slot: the aging report the reports page last computed
  dashLog,      \* history: per request slot, what the last dashboard request asked and read
  mem           \* the same invoice operations applied to a MemStorage

\* what the analytics and the reports page last showed
reports == <<categoryTotals, agingData, dashLog>>

vars == <<invoices, payments, nextId, now, pc, req, loc, resp, calls, issuedLog, deletedNums,
          customers, expenses, dash, categoryTotals, agingData, dashLog, mem>>

NoRequest == [op |-> "none", userId |-> "", number |-> NoNumber, issueYear |-> 0,
              issueMonth |-> 0, amount |-> 0, invoiceId |-> 0, customerId |-> 0,
              newCustomerName |-> FALSE, id |-> 0, change |-> "none", year |-> 0, month |-> 0,
              category |-> "", dueDate |-> NoDate, today |-> 0,
              paidAmount |-> 0, status |-> ""]

NoLocals == [currentYear |-> 0, attempt |-> 0, nextNumber |-> 0, totalPaid |-> 0,
             invoiceAmount |-> 0, startedAfter |-> 0, deletedPayments |-> {},
             invoices |-> {}, expenses |-> {}]

\* the body of a dashboard response
NoDashboard == [monthly |-> [invoices |-> 0, expenses |-> 0, payments |-> 0, profit |-> 0],
                yearly |-> [invoices |-> 0, expenses |-> 0, profit |-> 0],
                receivables |-> 0, lastUpdate |-> 0]

\* the body of an expenses-by-category response: category -> {total, count}
NoCategoryTotals == <<>>

\* what getAgingReport returns
NoAgingData == [overdue10to20 |-> {}, overdue20plus |-> {}]

\* nothing asked yet
NoDashLog == [userId |-> "", year |-> 0, month |-> 0,
              invoices |-> {}, expenses |-> {}, payments |-> {}]

\* an empty MemStorage to which no operation was applied
NoMem == [invoices |-> {}, nextId |-> 1, calls |-> 0, log |-> <<>>,
          pending |-> [op |-> "none", userId |-> "", customerId |-> 0, number |-> NoNumber]]

\* the month of the server's clock: December of the first year, then January
nowMonth == IF now = 2025 THEN 12 ELSE 1

\* a database in which every tenant has registered one customer
SeedCustomers == {[id |-> 1, userId |-> "u1"], [id |-> 2, userId |-> "u2"]}

Init ==
  /\ invoices = {}
  /\ payments = {}
  /\ customers = SeedCustomers
  /\ expenses = {}
  /\ nextId = Cardinality(SeedCustomers) + 1
  /\ now = 2025
  /\ pc = [p \in Procs |-> "idle"]
  /\ req = [p \in Procs |-> NoRequest]
  /\ loc = [p \in Procs |-> NoLocals]
  /\ resp = [p \in Procs |-> NoResponse]
  /\ dash = [p \in Procs |-> NoDashboard]
  /\ categoryTotals = [p \in Procs |-> NoCategoryTotals]
  /\ agingData = [p \in Procs |-> NoAgingData]
  /\ dashLog = [p \in Procs |-> NoDashLog]
  /\ mem = NoMem
  /\ calls = 0
  /\ issuedLog = <<>>
  /\ deletedNums = {}

\* the handler of slot p sends its response and the slot is free again
kind(request) ==
  IF request.op # "createInvoice" THEN request.op
  ELSE IF request.number = NoNumber THEN "generate" ELSE "explicit"

Respond(p, r, attempts) ==
  /\ pc' = [pc EXCEPT ![p] = "idle"]
  /\ resp' = [resp EXCEPT ![p] = [r EXCEPT !.for = kind(req[p]), !.attempts = attempts]]
  /\ loc' = [loc EXCEPT ![p] = NoLocals]
  /\ req' = [req EXCEPT ![p] = NoRequest]

(* ------------------------- POST /api/invoices -------------------------- *)

\* insertInvoiceSchema.parse: customerId is .min(1) and amount parses to a
\* number above 0 (a missing reference is 0, a non-positive amount is <= 0)
invoiceSchemaAccepts(body) == body.customerId # 0 /\ body.amount > 0

\* The request arrives.  With newCustomerName the route first creates the
\* customer; otherwise it parses the body and calls createInvoice, whose
\* first await is getCustomer.
PostInvoiceBody(p, userId, body, limit) ==
  /\ pc[p] = "idle"
  /\ calls < limit
  /\ calls' = calls + 1
  /\ resp' = [resp EXCEPT ![p] = NoResponse]
  /\ LET request == [NoRequest EXCEPT !.op = "createInvoice", !.userId = userId,
                                      !.number = body.number, !.issueYear = body.issueYear,
                                      !.issueMonth = body.issueMonth, !.amount = body.amount,
                                      !.customerId = body.customerId,
                                      !.newCustomerName = body.newCustomerName,
                                      !.dueDate = IF "dueDate" \in DOMAIN body
                                                  THEN body.dueDate ELSE NoDate]
     IN /\ req' = [req EXCEPT ![p] = request]
        /\ loc' = [loc EXCEPT ![p] = [NoLocals EXCEPT !.startedAfter = Len(issuedLog)]]
        /\ pc' = [pc EXCEPT ![p] =
                    IF body.newCustomerName THEN "ci_createCustomer"
                    ELSE IF invoiceSchemaAccepts(body) THEN "ci_getCustomer" ELSE "ci_reject"]
  /\ UNCHANGED <<reports, mem, invoices, payments, nextId, now, issuedLog, deletedNums, customers, expenses, dash>>

\* a valid body without newCustomerName naming one of the tenant's customers
PostInvoice(p, userId, number, issueYear, amount, limit) ==
  \E c \in customers :
    /\ c.userId = userId
    /\ PostInvoiceBody(p, userId,
                       [newCustomerName |-> FALSE, customerId |-> c.id, number |-> number,
                        issueYear |-> issueYear, issueMonth |-> IF issueYear = 0 THEN 0 ELSE 1,
                        amount |-> amount], limit)

\* the same with a due date, or with none when dueDate is NoDate: the
\* column is then null
PostInvoiceDue(p, userId, amount, dueDate, limit) ==
  \E c \in customers :
    /\ c.userId = userId
    /\ PostInvoiceBody(p, userId,
                       [newCustomerName |-> FALSE, customerId |-> c.id, number |-> NoNumber,
                        issueYear |-> 0, issueMonth |-> 0, amount |-> amount,
                        dueDate |-> dueDate], limit)

\* storage.createCustomer for newCustomerName, then insertInvoiceSchema.parse
\* of the body with the new customer's id
CreateCustomerForInvoice(p) ==
  /\ pc[p] = "ci_createCustomer"
  /\ customers' = customers \cup {[id |-> nextId, userId |-> req[p].userId]}
  /\ nextId' = nextId + 1
  /\ req' = [req EXCEPT ![p].customerId = nextId]
  /\ pc' = [pc EXCEPT ![p] =
              IF invoiceSchemaAccepts([req[p] EXCEPT !.customerId = nextId])
              THEN "ci_getCustomer" ELSE "ci_reject"]
  /\ UNCHANGED <<reports, mem, invoices, payments, now, loc, resp, calls, issuedLog, deletedNums, expenses, dash>>

\* the ZodError of insertInvoiceSchema.parse reaches the route's catch
RejectInvoice(p) ==
  /\ pc[p] = "ci_reject"
  /\ Respond(p, invoiceErrorResponse([NoError EXCEPT !.kind = "ZodError"]), 0)
  /\ UNCHANGED <<reports, mem, invoices, payments, nextId, now, calls, issuedLog, deletedNums,
                 customers, expenses, dash>>

\* createInvoice: getCustomer(customerId, userId); then the explicit-number
\* branch, or the clock is read and the retry loop entered
GetCustomerForInvoice(p) ==
  /\ pc[p] = "ci_getCustomer"
  /\ IF getCustomer(customers, req[p].customerId, req[p].userId) = {}
     THEN Respond(p, invoiceErrorResponse(customerNotFound), 0)
     ELSE /\ loc' = [loc EXCEPT ![p].currentYear = IF req[p].number = NoNumber THEN now ELSE 0]
          /\ pc' = [pc EXCEPT ![p] = IF req[p].number = NoNumber
                                     THEN "ci_select" ELSE "ci_insertExplicit"]
          /\ UNCHANGED <<reports, mem, resp, req>>
  /\ UNCHANGED <<reports, mem, invoices, payments, nextId, now, calls, issuedLog, deletedNums,
                 customers, expenses, dash>>

\* the row .values({...}) builds for the insert
newInvoice(p, number) ==
  [id |-> nextId, userId |-> req[p].userId, number |-> number, amount |-> req[p].amount,
   paidAmount |-> 0, status |-> "unpaid", customerId |-> req[p].customerId,
   issueYear |-> IF req[p].issueYear # 0 THEN req[p].issueYear ELSE now,
   issueMonth |-> IF req[p].issueYear # 0 THEN req[p].issueMonth ELSE nowMonth,
   dueDate |-> req[p].dueDate]

\* the insert succeeded: .returning() row goes out with status 201
Created(p, row, attempts) ==
  /\ invoices' = invoices \cup {row}
  /\ nextId' = nextId + 1
  /\ issuedLog' = Append(issuedLog, [id |-> row.id, userId |-> row.userId, number |-> row.number,
                                     persisted |-> {i.id : i \in invoices},
                                     issueYear |-> row.issueYear,
                                     generated |-> req[p].number = NoNumber,
                                     reissued |-> <<row.userId, row.number>> \in deletedNums,
                                     startedAfter |-> loc[p].startedAfter])
  /\ Respond(p, [NoResponse EXCEPT !.status = 201], attempts)

\* no foreign key on invoices.customer_id
noForeignKey(rows, customerId) == FALSE

\* invoices.customer_id references customers.id: does the insert or update
\* of a row with this customerId violate it?
customerForeignKey(rows, customerId) == ~\E c \in rows : c.id = customerId

\* createInvoice with a number: one insert, its error goes to the route
InsertExplicit(p) ==
  /\ pc[p] = "ci_insertExplicit"
  /\ IF userInvoiceNumber(invoices, req[p].userId, req[p].number)
     THEN /\ \E named \in BOOLEAN :
               Respond(p, invoiceErrorResponse(uniqueViolation(named)), 1)
          /\ UNCHANGED <<reports, mem, invoices, nextId, issuedLog>>
     ELSE IF customerForeignKey(customers, req[p].customerId)
     THEN /\ Respond(p, invoiceErrorResponse(foreignKeyViolation), 1)
          /\ UNCHANGED <<reports, mem, invoices, nextId, issuedLog>>
     ELSE Created(p, newInvoice(p, req[p].number), 1)
  /\ UNCHANGED <<reports, mem, payments, now, calls, deletedNums, customers, expenses, dash>>

\* the select of the retry loop and the computation of nextNumber
SelectLatest(p) ==
  /\ pc[p] = "ci_select"
  /\ LET latest == latestInvoice(invoices, req[p].userId, loc[p].currentYear)
     IN IF latest = {}
        THEN loc' = [loc EXCEPT ![p].nextNumber = 1]
        ELSE \E l \in latest : loc' = [loc EXCEPT ![p].nextNumber = numberPart(l.number) + 1]
  /\ pc' = [pc EXCEPT ![p] = "ci_insert"]
  /\ UNCHANGED <<reports, mem, invoices, payments, nextId, now, req, resp, calls, issuedLog, deletedNums, customers, expenses, dash>>

\* the insert of the retry loop and its catch
InsertGenerated(p) ==
  /\ pc[p] = "ci_insert"
  /\ LET invoiceNumber == formatInvoiceNumber(loc[p].currentYear, loc[p].nextNumber)
     IN IF userInvoiceNumber(invoices, req[p].userId, invoiceNumber)
        THEN /\ \E named \in BOOLEAN :
                  LET error == uniqueViolation(named)
                  IN IF isNumberCollision(error)
                     THEN IF loc[p].attempt = maxRetries - 1
                          THEN Respond(p, invoiceErrorResponse(unableToGenerate),
                                       loc[p].attempt + 1)
                          ELSE /\ loc' = [loc EXCEPT ![p].attempt = @ + 1]
                               /\ pc' = [pc EXCEPT ![p] = "ci_select"]
                               /\ UNCHANGED <<reports, mem, resp, req>>
                     ELSE Respond(p, invoiceErrorResponse(error), loc[p].attempt + 1)
             /\ UNCHANGED <<reports, mem, invoices, nextId, issuedLog>>
        ELSE IF customerForeignKey(customers, req[p].customerId)
        THEN /\ Respond(p, invoiceErrorResponse(foreignKeyViolation), loc[p].attempt + 1)
             /\ UNCHANGED <<reports, mem, invoices, nextId, issuedLog>>
        ELSE Created(p, newInvoice(p, invoiceNumber), loc[p].attempt + 1)
  /\ UNCHANGED <<reports, mem, payments, now, calls, deletedNums, customers, expenses, dash>>

\* the server's clock passes New Year
NewYear ==
  /\ now + 1 \in Years
  /\ now' = now + 1
  /\ UNCHANGED <<reports, mem, invoices, payments, nextId, pc, req, loc, resp, calls, issuedLog, deletedNums, customers, expenses, dash>>

(* ---------------------- DELETE /api/invoices/:id ----------------------- *)

\* the request arrives
DeleteInvoice(p, userId, id, limit) ==
  /\ pc[p] = "idle"
  /\ calls < limit
  /\ calls' = calls + 1
  /\ req' = [req EXCEPT ![p] = [NoRequest EXCEPT !.op = "deleteInvoice", !.userId = userId,
                                  !.invoiceId = id]]
  /\ resp' = [resp EXCEPT ![p] = NoResponse]
  /\ pc' = [pc EXCEPT ![p] = "di_routeGet"]
  /\ UNCHANGED <<reports, mem, invoices, payments, nextId, now, loc, issuedLog, deletedNums, customers, expenses, dash>>

\* the route's storage.getInvoice: 404 when the tenant has no such invoice
DeleteRouteGet(p) ==
  /\ pc[p] = "di_routeGet"
  /\ IF getInvoice(invoices, req[p].invoiceId, req[p].userId) = {}
     THEN Respond(p, [NoResponse EXCEPT !.status = 404, !.error = "Invoice not found"], 0)
     ELSE /\ pc' = [pc EXCEPT ![p] = "di_verify"]
          /\ UNCHANGED <<reports, mem, resp, loc, req>>
  /\ UNCHANGED <<reports, mem, invoices, payments, nextId, now, calls, issuedLog, deletedNums, customers, expenses, dash>>

\* storage.deleteInvoice verifies ownership; its throw becomes the route's 500
DeleteVerify(p) ==
  /\ pc[p] = "di_verify"
  /\ IF getInvoice(invoices, req[p].invoiceId, req[p].userId) = {}
     THEN Respond(p, [NoResponse EXCEPT !.status = 500, !.error = "Failed to delete invoice"], 0)
     ELSE /\ pc' = [pc EXCEPT ![p] = "di_payments"]
          /\ UNCHANGED <<reports, mem, resp, loc, req>>
  /\ UNCHANGED <<reports, mem, invoices, payments, nextId, now, calls, issuedLog, deletedNums, customers, expenses, dash>>

\* delete(payments).where(eq(payments.invoiceId, id))
DeletePayments(p) ==
  /\ pc[p] = "di_payments"
  /\ payments' = {q \in payments : q.invoiceId # req[p].invoiceId}
  /\ loc' = [loc EXCEPT ![p].deletedPayments = {q.id : q \in paymentsOf(payments, req[p].invoiceId)}]
  /\ pc' = [pc EXCEPT ![p] = "di_invoice"]
  /\ UNCHANGED <<reports, mem, invoices, nextId, now, req, resp, calls, issuedLog, deletedNums, customers, expenses, dash>>

\* delete(invoices).where(id, userId).returning(); payments.invoice_id
\* references invoices.id, so a payment inserted meanwhile makes it fail
DeleteRow(p) ==
  /\ pc[p] = "di_invoice"
  /\ LET rows == getInvoice(invoices, req[p].invoiceId, req[p].userId)
     IN IF rows # {} /\ \E q \in payments : q.invoiceId = req[p].invoiceId
        THEN /\ Respond(p, [NoResponse EXCEPT !.status = 500,
                                              !.error = "Failed to delete invoice"], 0)
             /\ UNCHANGED <<reports, mem, invoices, deletedNums>>
        ELSE /\ invoices' = invoices \ rows
             /\ deletedNums' = deletedNums \cup {<<i.userId, i.number>> : i \in rows}
             /\ IF rows # {}
                THEN Respond(p, [NoResponse EXCEPT !.status = 200], 0)
                ELSE Respond(p, [NoResponse EXCEPT !.status = 404,
                                                   !.error = "Invoice not found"], 0)
  /\ UNCHANGED <<reports, mem, payments, nextId, now, calls, issuedLog, customers, expenses, dash>>

(* -------------------------- POST /api/payments ------------------------- *)

RECURSIVE sum(_)
\* payments.reduce((sum, p) => sum + parseFloat(p.amount), 0)
sum(rows) ==
  IF rows = {} THEN 0
  ELSE LET r == CHOOSE r \in rows : TRUE IN r.amount + sum(rows \ {r})

\* the comparison with the amount made strict: totalPaid > invoiceAmount
deriveStatusStrict(totalPaid, invoiceAmount) ==
  IF totalPaid > invoiceAmount THEN "paid"
  ELSE IF totalPaid > 0 THEN "partial" ELSE "unpaid"

\* the status the route derives from totalPaid and invoiceAmount
deriveStatus(totalPaid, invoiceAmount) ==
  IF totalPaid >= invoiceAmount THEN "paid"
  ELSE IF totalPaid > 0 THEN "partial" ELSE "unpaid"

\* insertPaymentSchema.parse: invoiceId is .min(1) and amount parses to a
\* number above 0
paymentSchemaAccepts(invoiceId, amount) == invoiceId # 0 /\ amount > 0

\* the request arrives; insertPaymentSchema.parse throws or createPayment is called
PostPayment(p, userId, invoiceId, amount, limit) ==
  /\ pc[p] = "idle"
  /\ calls < limit
  /\ calls' = calls + 1
  /\ req' = [req EXCEPT ![p] = [NoRequest EXCEPT !.op = "payment", !.userId = userId,
                                  !.invoiceId = invoiceId, !.amount = amount]]
  /\ resp' = [resp EXCEPT ![p] = NoResponse]
  /\ pc' = [pc EXCEPT ![p] = IF paymentSchemaAccepts(invoiceId, amount)
                             THEN "pay_verify" ELSE "pay_reject"]
  /\ UNCHANGED <<reports, mem, invoices, payments, nextId, now, loc, issuedLog, deletedNums, customers, expenses, dash>>

\* the ZodError of insertPaymentSchema.parse reaches the route's catch
RejectPayment(p) ==
  /\ pc[p] = "pay_reject"
  /\ Respond(p, [NoResponse EXCEPT !.status = 400, !.error = "Invalid payment data"], 0)
  /\ UNCHANGED <<reports, mem, invoices, payments, nextId, now, calls, issuedLog, deletedNums,
                 customers, expenses, dash>>

\* createPayment verifies the invoice belongs to the tenant
PaymentVerify(p) ==
  /\ pc[p] = "pay_verify"
  /\ IF getInvoice(invoices, req[p].invoiceId, req[p].userId) = {}
     THEN Respond(p, [NoResponse EXCEPT !.status = 500, !.error = "Failed to create payment"], 0)
     ELSE /\ pc' = [pc EXCEPT ![p] = "pay_insert"]
          /\ UNCHANGED <<reports, mem, resp, loc, req>>
  /\ UNCHANGED <<reports, mem, invoices, payments, nextId, now, calls, issuedLog, deletedNums, customers, expenses, dash>>

\* createPayment inserts the row (invoice_id references invoices.id)
PaymentInsert(p) ==
  /\ pc[p] = "pay_insert"
  /\ IF \E i \in invoices : i.id = req[p].invoiceId
     THEN /\ payments' = payments \cup {[id |-> nextId, invoiceId |-> req[p].invoiceId,
                                          amount |-> req[p].amount,
                                          year |-> now, month |-> nowMonth]}
          /\ nextId' = nextId + 1
          /\ pc' = [pc EXCEPT ![p] = "pay_getInvoice"]
          /\ UNCHANGED <<reports, mem, resp, loc, req>>
     ELSE /\ Respond(p, [NoResponse EXCEPT !.status = 500,
                                           !.error = "Failed to create payment"], 0)
          /\ UNCHANGED <<reports, mem, payments, nextId>>
  /\ UNCHANGED <<reports, mem, invoices, now, calls, issuedLog, deletedNums, customers, expenses, dash>>

\* the route reads the invoice; without one it answers 201 at once
PaymentGetInvoice(p) ==
  /\ pc[p] = "pay_getInvoice"
  /\ LET rows == getInvoice(invoices, req[p].invoiceId, req[p].userId)
     IN IF rows = {}
        THEN Respond(p, [NoResponse EXCEPT !.status = 201], 0)
        ELSE /\ \E i \in rows : loc' = [loc EXCEPT ![p].invoiceAmount = i.amount]
             /\ pc' = [pc EXCEPT ![p] = "pay_listVerify"]
             /\ UNCHANGED <<reports, mem, resp, req>>
  /\ UNCHANGED <<reports, mem, invoices, payments, nextId, now, calls, issuedLog, deletedNums, customers, expenses, dash>>

\* getPaymentsByInvoice verifies the invoice: [] when it is gone
PaymentListVerify(p) ==
  /\ pc[p] = "pay_listVerify"
  /\ IF getInvoice(invoices, req[p].invoiceId, req[p].userId) = {}
     THEN /\ loc' = [loc EXCEPT ![p].totalPaid = 0]
          /\ pc' = [pc EXCEPT ![p] = "pay_update"]
     ELSE /\ pc' = [pc EXCEPT ![p] = "pay_select"]
          /\ UNCHANGED loc
  /\ UNCHANGED <<reports, mem, invoices, payments, nextId, now, req, resp, calls, issuedLog, deletedNums, customers, expenses, dash>>

\* totalPaid of the payment that was just made alone (an incremental total)
totalOfLast(rows, invoiceId, amount) == amount

\* the total the route computes from the select of the invoice's payments
totalPaid(rows, invoiceId, amount) == sum(paymentsOf(rows, invoiceId))

\* getPaymentsByInvoice selects the payments; the route sums them
PaymentSelect(p) ==
  /\ pc[p] = "pay_select"
  /\ loc' = [loc EXCEPT ![p].totalPaid = totalPaid(payments, req[p].invoiceId, req[p].amount)]
  /\ pc' = [pc EXCEPT ![p] = "pay_update"]
  /\ UNCHANGED <<reports, mem, invoices, payments, nextId, now, req, resp, calls, issuedLog, deletedNums, customers, expenses, dash>>

\* updateInvoice(id, {paidAmount, status}, userId): throws when no row matched
PaymentUpdate(p) ==
  /\ pc[p] = "pay_update"
  /\ LET rows == getInvoice(invoices, req[p].invoiceId, req[p].userId)
         status == deriveStatus(loc[p].totalPaid, loc[p].invoiceAmount)
     IN IF rows = {}
        THEN /\ Respond(p, [NoResponse EXCEPT !.status = 500,
                                              !.error = "Failed to create payment"], 0)
             /\ UNCHANGED invoices
        ELSE /\ invoices' = (invoices \ rows) \cup
                   {[i EXCEPT !.paidAmount = loc[p].totalPaid, !.status = status] : i \in rows}
             /\ Respond(p, [NoResponse EXCEPT !.status = 201], 0)
  /\ UNCHANGED <<reports, mem, payments, nextId, now, calls, issuedLog, deletedNums, customers, expenses, dash>>

(* ------------------------ PUT /api/invoices/:id ------------------------ *)

\* insertInvoiceSchema.partial().parse: the fields given are checked
partialInvoiceSchemaAccepts(change, value) ==
  CASE change = "amount" -> value > 0
    [] change = "form" -> value > 0
    [] change = "customerId" -> value # 0
    [] OTHER -> TRUE

\* The request arrives and passes the schema.  Its body has one field to
\* change, or it is the body the edit form sends (change = "form"): the
\* amount of the form, paidAmount "0" and the status the form was opened
\* with, which are the form's default values.
PutInvoice(p, userId, id, change, value, limit) ==
  /\ pc[p] = "idle"
  /\ calls < limit
  /\ partialInvoiceSchemaAccepts(change, value)
  /\ calls' = calls + 1
  /\ req' = [req EXCEPT ![p] = [NoRequest EXCEPT !.op = "updateInvoice", !.userId = userId,
                                  !.invoiceId = id, !.change = change,
                                  !.amount = IF change \in {"amount", "form"} THEN value ELSE 0,
                                  !.customerId = IF change = "customerId" THEN value ELSE 0,
                                  !.paidAmount = 0,
                                  !.status =
                                    IF change = "form"
                                    THEN LET rows == getInvoice(invoices, id, userId)
                                         IN IF rows = {} THEN "unpaid"
                                            ELSE (CHOOSE i \in rows : TRUE).status
                                    ELSE ""]]
  /\ resp' = [resp EXCEPT ![p] = NoResponse]
  /\ pc' = [pc EXCEPT ![p] = "ui_update"]
  /\ UNCHANGED <<reports, mem, invoices, payments, nextId, now, loc, issuedLog, deletedNums,
                 customers, expenses, dash>>

\* updateInvoice: update(invoices).set(updateValues).where(id, userId)
\* .returning(); no row or a store error is the route's 500
UpdateInvoiceRow(p) ==
  /\ pc[p] = "ui_update"
  /\ LET rows == getInvoice(invoices, req[p].invoiceId, req[p].userId)
     IN IF rows = {} \/ ( /\ req[p].change = "customerId"
                          /\ customerForeignKey(customers, req[p].customerId) )
        THEN /\ Respond(p, [NoResponse EXCEPT !.status = 500,
                                              !.error = "Failed to update invoice"], 0)
             /\ UNCHANGED invoices
        ELSE /\ invoices' = (invoices \ rows) \cup
                   {CASE req[p].change = "amount" -> [i EXCEPT !.amount = req[p].amount]
                      [] req[p].change = "form" ->
                           [i EXCEPT !.amount = req[p].amount,
                                     !.paidAmount = req[p].paidAmount,
                                     !.status = req[p].status]
                      [] OTHER -> [i EXCEPT !.customerId = req[p].customerId] : i \in rows}
             /\ Respond(p, [NoResponse EXCEPT !.status = 200], 0)
  /\ UNCHANGED <<reports, mem, payments, nextId, now, calls, issuedLog, deletedNums, customers, expenses, dash>>

(* ---------------------- DELETE /api/customers/:id ---------------------- *)

\* the request arrives
DeleteCustomer(p, userId, id, limit) ==
  /\ pc[p] = "idle"
  /\ calls < limit
  /\ calls' = calls + 1
  /\ req' = [req EXCEPT ![p] = [NoRequest EXCEPT !.op = "deleteCustomer", !.userId = userId,
                                  !.id = id]]
  /\ resp' = [resp EXCEPT ![p] = NoResponse]
  /\ pc' = [pc EXCEPT ![p] = "dc_hasInvoices"]
  /\ UNCHANGED <<reports, mem, invoices, payments, nextId, now, loc, issuedLog, deletedNums,
                 customers, expenses, dash>>

\* customerInvoices.length > 1
hasSeveralCustomerInvoices(rows, customerId, userId) ==
  Cardinality(getInvoicesByCustomer(rows, customerId, userId)) > 1

\* hasCustomerInvoices(customerId, userId)
hasCustomerInvoices(rows, customerId, userId) ==
  getInvoicesByCustomer(rows, customerId, userId) # {}

\* deleteCustomer: the check for invoices; its throw is the route's 400
HasCustomerInvoices(p) ==
  /\ pc[p] = "dc_hasInvoices"
  /\ IF hasCustomerInvoices(invoices, req[p].id, req[p].userId)
     THEN Respond(p, [NoResponse EXCEPT !.status = 400,
                                        !.error = "Bu musteriyi silemezsiniz"], 0)
     ELSE /\ pc' = [pc EXCEPT ![p] = "dc_delete"]
          /\ UNCHANGED <<reports, mem, resp, loc, req>>
  /\ UNCHANGED <<reports, mem, invoices, payments, nextId, now, calls, issuedLog, deletedNums,
                 customers, expenses, dash>>

\* deleteCustomer: delete(customers).where(id, userId).returning();
\* invoices.customer_id references customers.id
DeleteCustomerRow(p) ==
  /\ pc[p] = "dc_delete"
  /\ LET rows == getCustomer(customers, req[p].id, req[p].userId)
     IN IF rows # {} /\ \E i \in invoices : i.customerId = req[p].id
        THEN /\ Respond(p, [NoResponse EXCEPT !.status = 500,
                                              !.error = "Failed to delete customer"], 0)
             /\ UNCHANGED customers
        ELSE /\ customers' = customers \ rows
             /\ IF rows # {}
                THEN Respond(p, [NoResponse EXCEPT !.status = 200], 0)
                ELSE Respond(p, [NoResponse EXCEPT !.status = 404,
                                                   !.error = "Customer not found"], 0)
  /\ UNCHANGED <<reports, mem, invoices, payments, nextId, now, calls, issuedLog, deletedNums, expenses, dash>>

(* ----------------------------- /api/expenses --------------------------- *)

\* insertExpenseSchema.parse: amount parses to a number above 0
expenseSchemaAccepts(amount) == amount > 0

\* POST /api/expenses arrives with a body that passes the schema; category
\* is any text
PostExpenseIn(p, userId, category, amount, year, month, limit) ==
  /\ pc[p] = "idle"
  /\ calls < limit
  /\ expenseSchemaAccepts(amount)
  /\ calls' = calls + 1
  /\ req' = [req EXCEPT ![p] = [NoRequest EXCEPT !.op = "createExpense", !.userId = userId,
                                  !.category = category,
                                  !.amount = amount, !.year = year, !.month = month]]
  /\ resp' = [resp EXCEPT ![p] = NoResponse]
  /\ pc' = [pc EXCEPT ![p] = "ce_insert"]
  /\ UNCHANGED <<reports, mem, invoices, payments, nextId, now, loc, issuedLog, deletedNums,
                 customers, expenses, dash>>

\* the same with one of the categories the expense form offers
PostExpense(p, userId, amount, year, month, limit) ==
  PostExpenseIn(p, userId, "Kira", amount, year, month, limit)

\* createExpense: insert(expenses).values({..., date: date given or now})
CreateExpense(p) ==
  /\ pc[p] = "ce_insert"
  /\ expenses' = expenses \cup
       {[id |-> nextId, userId |-> req[p].userId, category |-> req[p].category,
         amount |-> req[p].amount,
         year |-> IF req[p].year # 0 THEN req[p].year ELSE now,
         month |-> IF req[p].year # 0 THEN req[p].month ELSE nowMonth]}
  /\ nextId' = nextId + 1
  /\ Respond(p, [NoResponse EXCEPT !.status = 201], 0)
  /\ UNCHANGED <<reports, mem, invoices, payments, now, calls, issuedLog, deletedNums, customers, dash>>

\* DELETE /api/expenses/:id arrives
DeleteExpense(p, userId, id, limit) ==
  /\ pc[p] = "idle"
  /\ calls < limit
  /\ calls' = calls + 1
  /\ req' = [req EXCEPT ![p] = [NoRequest EXCEPT !.op = "deleteExpense", !.userId = userId,
                                  !.id = id]]
  /\ resp' = [resp EXCEPT ![p] = NoResponse]
  /\ pc' = [pc EXCEPT ![p] = "de_delete"]
  /\ UNCHANGED <<reports, mem, invoices, payments, nextId, now, loc, issuedLog, deletedNums,
                 customers, expenses, dash>>

\* deleteExpense: delete(expenses).where(id, userId).returning()
DeleteExpenseRow(p) ==
  /\ pc[p] = "de_delete"
  /\ LET rows == getExpense(expenses, req[p].id, req[p].userId)
     IN /\ expenses' = expenses \ rows
        /\ IF rows # {}
           THEN Respond(p, [NoResponse EXCEPT !.status = 200], 0)
           ELSE Respond(p, [NoResponse EXCEPT !.status = 404, !.error = "Expense not found"], 0)
  /\ UNCHANGED <<reports, mem, invoices, payments, nextId, now, calls, issuedLog, deletedNums, customers, dash>>

(* --------------------- GET /api/analytics/dashboard -------------------- *)

\* getInvoices / getExpenses: where(eq(userId, userId))
ofTenant(rows, userId) == {r \in rows : r.userId = userId}

\* getPayments: payments inner join invoices where invoices.userId = userId
getPayments(rows, invoiceRows, userId) ==
  {q \in rows : \E i \in invoiceRows : i.id = q.invoiceId /\ i.userId = userId}

\* ym.month === currentMonth, the year left out
inMonthOfAnyYear(rows, yearOf, monthOf, year, month) == {r \in rows : monthOf[r] = month}

\* getYearMonth(date): month === currentMonth && year === currentYear
inMonth(rows, yearOf, monthOf, year, month) ==
  {r \in rows : yearOf[r] = year /\ monthOf[r] = month}

\* the year of the clock instead of the year asked
inYearOfClock(rows, yearOf, year) == {r \in rows : yearOf[r] = now}

\* getYearMonth(date): year === currentYear
inYear(rows, yearOf, year) == {r \in rows : yearOf[r] = year}

\* the amounts alone, the paid amounts left out
remainingOfAmounts(rows) == sum(rows)

RECURSIVE remaining(_)
\* receivables.reduce((sum, inv) => sum + amount - paidAmount, 0)
remaining(rows) ==
  IF rows = {} THEN 0
  ELSE LET r == CHOOSE r \in rows : TRUE IN (r.amount - r.paidAmount) + remaining(rows \ {r})

\* profit: monthlyInvoiceTotal - monthlyExpenseTotal
profit(invoiceTotal, expenseTotal) == invoiceTotal - expenseTotal

\* the body the handler computes from the three lists it has read
dashboard(invoiceRows, expenseRows, paymentRows, year, month, time) ==
  LET issueYear == [i \in invoiceRows |-> i.issueYear]
      issueMonth == [i \in invoiceRows |-> i.issueMonth]
      dateYear == [r \in expenseRows \cup paymentRows |-> r.year]
      dateMonth == [r \in expenseRows \cup paymentRows |-> r.month]
      monthlyInvoiceTotal == sum(inMonth(invoiceRows, issueYear, issueMonth, year, month))
      monthlyExpenseTotal == sum(inMonth(expenseRows, dateYear, dateMonth, year, month))
      monthlyPaymentTotal == sum(inMonth(paymentRows, dateYear, dateMonth, year, month))
      yearlyInvoiceTotal == sum(inYear(invoiceRows, issueYear, year))
      yearlyExpenseTotal == sum(inYear(expenseRows, dateYear, year))
  IN [monthly |-> [invoices |-> monthlyInvoiceTotal, expenses |-> monthlyExpenseTotal,
                   payments |-> monthlyPaymentTotal,
                   profit |-> profit(monthlyInvoiceTotal, monthlyExpenseTotal)],
      yearly |-> [invoices |-> yearlyInvoiceTotal, expenses |-> yearlyExpenseTotal,
                  profit |-> profit(yearlyInvoiceTotal, yearlyExpenseTotal)],
      receivables |-> remaining({i \in invoiceRows : i.status \in {"unpaid", "partial"}}),
      lastUpdate |-> time]

\* the request arrives; month and year default to the clock's
GetDashboard(p, userId, year, month, limit) ==
  /\ pc[p] = "idle"
  /\ calls < limit
  /\ calls' = calls + 1
  /\ req' = [req EXCEPT ![p] = [NoRequest EXCEPT !.op = "dashboard", !.userId = userId,
                                  !.year = IF year # 0 THEN year ELSE now,
                                  !.month = IF month # 0 THEN month ELSE nowMonth]]
  /\ resp' = [resp EXCEPT ![p] = NoResponse]
  /\ pc' = [pc EXCEPT ![p] = "an_invoices"]
  /\ UNCHANGED <<reports, mem, invoices, payments, nextId, now, loc, issuedLog, deletedNums,
                 customers, expenses, dash>>

\* storage.getInvoices(req.userId)
DashboardInvoices(p) ==
  /\ pc[p] = "an_invoices"
  /\ loc' = [loc EXCEPT ![p].invoices = ofTenant(invoices, req[p].userId)]
  /\ pc' = [pc EXCEPT ![p] = "an_expenses"]
  /\ UNCHANGED <<reports, mem, invoices, payments, nextId, now, req, resp, calls, issuedLog, deletedNums,
                 customers, expenses, dash>>

\* storage.getExpenses(req.userId)
DashboardExpenses(p) ==
  /\ pc[p] = "an_expenses"
  /\ loc' = [loc EXCEPT ![p].expenses = ofTenant(expenses, req[p].userId)]
  /\ pc' = [pc EXCEPT ![p] = "an_payments"]
  /\ UNCHANGED <<reports, mem, invoices, payments, nextId, now, req, resp, calls, issuedLog, deletedNums,
                 customers, expenses, dash>>

\* storage.getPayments(req.userId), the calculations and res.json
DashboardPayments(p) ==
  /\ pc[p] = "an_payments"
  /\ LET paymentRows == getPayments(payments, invoices, req[p].userId)
     IN /\ \E time \in Times :
             dash' = [dash EXCEPT ![p] = dashboard(loc[p].invoices, loc[p].expenses,
                                                   paymentRows, req[p].year, req[p].month,
                                                   time)]
        /\ dashLog' = [dashLog EXCEPT ![p] =
                         [userId |-> req[p].userId, year |-> req[p].year,
                          month |-> req[p].month, invoices |-> loc[p].invoices,
                          expenses |-> loc[p].expenses, payments |-> paymentRows]]
  /\ Respond(p, [NoResponse EXCEPT !.status = 200], 0)
  /\ UNCHANGED <<categoryTotals, agingData, mem, invoices, payments, nextId, now, calls, issuedLog, deletedNums,
                 customers, expenses>>

(* ---------------- GET /api/analytics/expenses-by-category -------------- *)

\* the properties an object literal {} inherits from Object.prototype
ObjectPrototype ==
  {"constructor", "toString", "valueOf", "hasOwnProperty", "isPrototypeOf",
   "propertyIsEnumerable", "toLocaleString", "__proto__"}

RECURSIVE reduceByCategory(_)
\* filteredExpenses.reduce((acc, expense) => ..., {}): acc[category] is the
\* entry acc owns or, for a name of Object.prototype, the inherited value,
\* which is truthy: no entry is made and the sums go to the inherited object
reduceByCategory(rows) ==
  IF rows = {} THEN <<>>
  ELSE LET expense == CHOOSE e \in rows : TRUE
           acc == reduceByCategory(rows \ {expense})
           category == expense.category
       IN IF category \in DOMAIN acc
          THEN [acc EXCEPT ![category] = [total |-> @.total + expense.amount,
                                         count |-> @.count + 1]]
          ELSE IF category \in ObjectPrototype THEN acc
          ELSE acc @@ (category :> [total |-> expense.amount, count |-> 1])

\* the body the handler computes from the expenses it has read
expensesByCategory(expenseRows, year, month) ==
  reduceByCategory(inMonth(expenseRows, [e \in expenseRows |-> e.year],
                           [e \in expenseRows |-> e.month], year, month))

\* the request arrives; month and year default to the clock's
GetExpensesByCategory(p, userId, year, month, limit) ==
  /\ pc[p] = "idle"
  /\ calls < limit
  /\ calls' = calls + 1
  /\ req' = [req EXCEPT ![p] = [NoRequest EXCEPT !.op = "expensesByCategory",
                                  !.userId = userId,
                                  !.year = IF year # 0 THEN year ELSE now,
                                  !.month = IF month # 0 THEN month ELSE nowMonth]]
  /\ resp' = [resp EXCEPT ![p] = NoResponse]
  /\ pc' = [pc EXCEPT ![p] = "ec_expenses"]
  /\ UNCHANGED <<reports, mem, invoices, payments, nextId, now, loc, issuedLog, deletedNums,
                 customers, expenses, dash>>

\* storage.getExpenses(req.userId), the filter, the reduce and res.json
CategoryExpenses(p) ==
  /\ pc[p] = "ec_expenses"
  /\ categoryTotals' = [categoryTotals EXCEPT ![p] =
       expensesByCategory(ofTenant(expenses, req[p].userId), req[p].year, req[p].month)]
  /\ Respond(p, [NoResponse EXCEPT !.status = 200], 0)
  /\ UNCHANGED <<agingData, dashLog, mem, invoices, payments, nextId, now, calls, issuedLog,
                 deletedNums, customers, expenses, dash>>

(* -------------------- reports page: getAgingReport --------------------- *)

\* new Date(invoice.dueDate).getTime(): new Date(null) is the epoch
getTime(date) == IF date = NoDate THEN 0 ELSE date

\* Math.floor((today.getTime() - dueDate.getTime()) / (1000 * 60 * 60 * 24))
daysDiff(today, dueDate) == (today - getTime(dueDate)) \div DayMs

\* the invoices forEach passes on to the buckets: not paid, daysDiff above
\* 0, remaining above 0
agingRows(invoiceRows, today) ==
  {[id |-> i.id, remaining |-> i.amount - i.paidAmount,
    daysPastDue |-> daysDiff(today, i.dueDate)] :
     i \in {j \in invoiceRows : /\ j.status # "paid"
                                 /\ daysDiff(today, j.dueDate) > 0
                                 /\ j.amount - j.paidAmount > 0}}

\* what getAgingReport returns
getAgingReport(invoiceRows, today) ==
  [overdue10to20 |-> {r \in agingRows(invoiceRows, today) :
                        r.daysPastDue >= 10 /\ r.daysPastDue <= 20},
   overdue20plus |-> {r \in agingRows(invoiceRows, today) : r.daysPastDue > 20}]

\* the reports page is opened: its query GET /api/invoices is sent
OpenReports(p, userId, today, limit) ==
  /\ pc[p] = "idle"
  /\ calls < limit
  /\ calls' = calls + 1
  /\ req' = [req EXCEPT ![p] = [NoRequest EXCEPT !.op = "agingReport", !.userId = userId,
                                  !.today = today]]
  /\ resp' = [resp EXCEPT ![p] = NoResponse]
  /\ pc' = [pc EXCEPT ![p] = "ag_invoices"]
  /\ UNCHANGED <<reports, mem, invoices, payments, nextId, now, loc, issuedLog, deletedNums,
                 customers, expenses, dash>>

\* storage.getInvoices(req.userId) answers and the page computes the report
AgingInvoices(p) ==
  /\ pc[p] = "ag_invoices"
  /\ agingData' = [agingData EXCEPT ![p] =
       getAgingReport(ofTenant(invoices, req[p].userId), req[p].today)]
  /\ Respond(p, [NoResponse EXCEPT !.status = 200], 0)
  /\ UNCHANGED <<categoryTotals, dashLog, mem, invoices, payments, nextId, now, calls,
                 issuedLog, deletedNums, customers, expenses, dash>>

(* ------------------------------ MemStorage ----------------------------- *)

\* MemStorage.generateInvoiceNumber: the greatest parsed suffix among the
\* tenant's numbers with the year's prefix, plus 1; 1 when there is none
generateInvoiceNumber(rows, userId, currentYear) ==
  LET currentYearInvoices == {numberPart(i.number) : i \in yearRows(rows, userId, currentYear)}
      nextNumber == IF currentYearInvoices # {}
                    THEN (CHOOSE n \in currentYearInvoices :
                            \A m \in currentYearInvoices : m <= n) + 1
                    ELSE 1
  IN formatInvoiceNumber(currentYear, nextNumber)

\* no request is in progress and both storages have been given the same
\* operations
inStep == (\A p \in Procs : pc[p] = "idle") /\ mem.calls = calls

\* MemStorage.createInvoice without a number: it has no await, and it does
\* not look the customer up
MemCreateInvoice(userId, customerId, limit) ==
  /\ inStep
  /\ calls < limit
  /\ LET invoiceNumber == generateInvoiceNumber(mem.invoices, userId, now)
     IN mem' = [invoices |-> mem.invoices \cup
                               {[id |-> mem.nextId, userId |-> userId,
                                 number |-> invoiceNumber, customerId |-> customerId]},
                nextId |-> mem.nextId + 1,
                calls |-> mem.calls + 1,
                log |-> Append(mem.log, invoiceNumber),
                pending |-> [op |-> "createInvoice", userId |-> userId,
                             customerId |-> customerId, number |-> invoiceNumber]]
  /\ UNCHANGED <<reports, invoices, payments, nextId, now, pc, req, loc, resp, calls,
                 issuedLog, deletedNums, customers, expenses, dash>>

\* MemStorage.deleteInvoice of the tenant's invoice with this number
MemDeleteInvoice(userId, number, limit) ==
  /\ inStep
  /\ calls < limit
  /\ mem' = [mem EXCEPT !.invoices = {i \in @ : ~(i.userId = userId /\ i.number = number)},
                        !.calls = @ + 1,
                        !.pending = [op |-> "deleteInvoice", userId |-> userId,
                                     customerId |-> 0, number |-> number]]
  /\ UNCHANGED <<reports, invoices, payments, nextId, now, pc, req, loc, resp, calls,
                 issuedLog, deletedNums, customers, expenses, dash>>

\* the operation MemStorage was given last goes to the server, which runs
\* it on PostgreSQLStorage
SameCreateInvoice(p, limit) ==
  /\ mem.calls = calls + 1
  /\ mem.pending.op = "createInvoice"
  /\ PostInvoiceBody(p, mem.pending.userId,
                     [newCustomerName |-> FALSE, customerId |-> mem.pending.customerId,
                      number |-> NoNumber, issueYear |-> 0, issueMonth |-> 0,
                      amount |-> CHOOSE a \in Amounts : TRUE], limit)

SameDeleteInvoice(p, limit) ==
  /\ mem.calls = calls + 1
  /\ mem.pending.op = "deleteInvoice"
  /\ LET rows == {i \in invoices : /\ i.userId = mem.pending.userId
                                    /\ i.number = mem.pending.number}
     IN \E id \in IF rows = {} THEN {nextId} ELSE {i.id : i \in rows} :
          DeleteInvoice(p, mem.pending.userId, id, limit)

(* ------------------------- storage operations ------------------------- *)

\* the storage operations that take a record id and a tenant id
StorageOps ==
  {"getCustomer", "updateCustomer", "deleteCustomer", "getInvoice", "updateInvoice",
   "deleteInvoice", "getExpense", "updateExpense", "deleteExpense", "getPaymentsByInvoice",
   "createPayment"}

\* what the operation, run alone in the current state, reports to its caller
storageResult(op, id, userId) ==
  CASE op = "getCustomer" ->
         IF getCustomer(customers, id, userId) = {} THEN "undefined" ELSE "row"
    [] op = "updateCustomer" ->
         IF getCustomer(customers, id, userId) = {} THEN "Customer not found" ELSE "row"
    [] op = "deleteCustomer" ->
         IF hasCustomerInvoices(invoices, id, userId) THEN "Bu musteriyi silemezsiniz"
         ELSE IF getCustomer(customers, id, userId) = {} THEN "false"
         ELSE IF \E i \in invoices : i.customerId = id THEN "foreign key" ELSE "true"
    [] op = "getInvoice" ->
         IF getInvoice(invoices, id, userId) = {} THEN "undefined" ELSE "row"
    [] op = "updateInvoice" ->
         IF getInvoice(invoices, id, userId) = {} THEN "Invoice not found" ELSE "row"
    [] op = "deleteInvoice" ->
         IF getInvoice(invoices, id, userId) = {} THEN "Invoice not found" ELSE "true"
    [] op = "getExpense" ->
         IF getExpense(expenses, id, userId) = {} THEN "undefined" ELSE "row"
    [] op = "updateExpense" ->
         IF getExpense(expenses, id, userId) = {} THEN "Expense not found" ELSE "row"
    [] op = "deleteExpense" ->
         IF getExpense(expenses, id, userId) = {} THEN "false" ELSE "true"
    [] op = "getPaymentsByInvoice" ->
         IF getInvoice(invoices, id, userId) = {} THEN "[]" ELSE "rows"
    [] op = "createPayment" ->
         IF getInvoice(invoices, id, userId) = {} THEN "Invoice not found or access denied"
         ELSE "row"

\* the table whose records the operation's id names
tableOf(op) ==
  CASE op \in {"getCustomer", "updateCustomer", "deleteCustomer"} -> customers
    [] op \in {"getExpense", "updateExpense", "deleteExpense"} -> expenses
    [] OTHER -> invoices

(* --------------------------- specifications ---------------------------- *)

\* one step of the handler in slot p
CreateStep(p) ==
  \/ GetCustomerForInvoice(p) \/ SelectLatest(p) \/ InsertGenerated(p) \/ InsertExplicit(p)

\* the steps of a create whose body has no number
GenerateStep(p) == GetCustomerForInvoice(p) \/ SelectLatest(p) \/ InsertGenerated(p)

DeleteStep(p) == DeleteRouteGet(p) \/ DeleteVerify(p) \/ DeletePayments(p) \/ DeleteRow(p)

PaymentStep(p) ==
  \/ PaymentVerify(p) \/ PaymentInsert(p) \/ PaymentGetInvoice(p)
  \/ PaymentListVerify(p) \/ PaymentSelect(p) \/ PaymentUpdate(p)

ids == {i.id : i \in invoices}

\* the slot of a client that sends its requests one after the other
Sequential == {"p1"}

\* the slots of two clients whose requests overlap
Pair == {"p1", "p2"}

\* createInvoice without a number, up to three at a time, across New Year
NextAuto ==
  \/ \E p \in Procs, u \in Users, a \in Amounts :
       PostInvoice(p, u, NoNumber, 0, a, MaxCalls)
  \/ \E p \in Procs : GenerateStep(p)
  \/ NewYear

SpecAuto == Init /\ [][NextAuto]_vars

\* createInvoice with and without a number
NextCreate ==
  \/ \E p \in Pair, u \in Users, n \in {NoNumber} \cup ExplicitNumbers, a \in Amounts :
       PostInvoice(p, u, n, 0, a, MaxCalls)
  \/ \E p \in Pair : CreateStep(p)

SpecCreate == Init /\ [][NextCreate]_vars

\* the creates (with and without a number) and deletes of one tenant,
\* requests overlapping freely
NextOrder ==
  \/ \E p \in Pair, n \in {NoNumber} \cup UnpaddedNumbers, a \in Amounts :
       PostInvoice(p, "u1", n, 0, a, MaxOrderCalls)
  \/ \E p \in Pair, i \in ids : DeleteInvoice(p, "u1", i, MaxOrderCalls)
  \/ \E p \in Pair : CreateStep(p)
  \/ \E p \in Pair : DeleteStep(p)

SpecOrder == Init /\ [][NextOrder]_vars

\* creates (with and without a number) and deletes of invoices, one request
\* at a time, across New Year
NextNumSeq ==
  \/ \E p \in Sequential, u \in Users, n \in {NoNumber} \cup ExplicitNumbers, a \in Amounts :
       PostInvoice(p, u, n, 0, a, MaxSeqCalls)
  \/ \E p \in Sequential, u \in Users, i \in ids : DeleteInvoice(p, u, i, MaxSeqCalls)
  \/ \E p \in Sequential : CreateStep(p)
  \/ \E p \in Sequential : DeleteStep(p)
  \/ NewYear

SpecNumSeq == Init /\ [][NextNumSeq]_vars

\* creates without a number, with and without an issue date, one request at
\* a time, across New Year
NextIssueDate ==
  \/ \E p \in Sequential, u \in Users, y \in {0} \cup Years, a \in Amounts :
       PostInvoice(p, u, NoNumber, y, a, MaxSeqCalls)
  \/ \E p \in Sequential : GenerateStep(p)
  \/ NewYear

SpecIssueDate == Init /\ [][NextIssueDate]_vars

\* payments on the invoices created, requests overlapping freely
NextPay ==
  \/ \E p \in Pair, u \in Users, a \in Amounts : PostInvoice(p, u, NoNumber, 0, a, MaxCalls)
  \/ \E p \in Pair, u \in Users, i \in ids, a \in PayAmounts : PostPayment(p, u, i, a, MaxCalls)
  \/ \E p \in Pair : GenerateStep(p)
  \/ \E p \in Pair : PaymentStep(p)

SpecPay == Init /\ [][NextPay]_vars

\* the same requests, one at a time
NextPaySeq ==
  \/ \E p \in Sequential, u \in Users, a \in Amounts :
       PostInvoice(p, u, NoNumber, 0, a, MaxCalls)
  \/ \E p \in Sequential, u \in Users, i \in ids, a \in PayAmounts :
       PostPayment(p, u, i, a, MaxCalls)
  \/ \E p \in Sequential : GenerateStep(p)
  \/ \E p \in Sequential : PaymentStep(p)

SpecPaySeq == Init /\ [][NextPaySeq]_vars

\* every request, overlapping freely
Next ==
  \/ \E p \in Pair, u \in Users, n \in {NoNumber} \cup ExplicitNumbers, a \in Amounts :
       PostInvoice(p, u, n, 0, a, MaxCalls)
  \/ \E p \in Pair, u \in Users, i \in ids : DeleteInvoice(p, u, i, MaxCalls)
  \/ \E p \in Pair, u \in Users, i \in ids, a \in PayAmounts : PostPayment(p, u, i, a, MaxCalls)
  \/ \E p \in Pair : CreateStep(p)
  \/ \E p \in Pair : DeleteStep(p)
  \/ \E p \in Pair : PaymentStep(p)
  \/ NewYear

Spec == Init /\ [][Next]_vars

\* payments on and deletes of one tenant's invoices, requests overlapping
NextPayDelete ==
  \/ \E p \in Pair, a \in Amounts : PostInvoice(p, "u1", NoNumber, 0, a, MaxCalls)
  \/ \E p \in Pair, i \in ids, a \in PayAmounts : PostPayment(p, "u1", i, a, MaxCalls)
  \/ \E p \in Pair, i \in ids : DeleteInvoice(p, "u1", i, MaxCalls)
  \/ \E p \in Pair : GenerateStep(p)
  \/ \E p \in Pair : PaymentStep(p)
  \/ \E p \in Pair : DeleteStep(p)

SpecPayDelete == Init /\ [][NextPayDelete]_vars

\* payments on one tenant's invoices while their amount is being edited
NextPayUpdate ==
  \/ \E p \in Pair, a \in Amounts : PostInvoice(p, "u1", NoNumber, 0, a, MaxCalls)
  \/ \E p \in Pair, i \in ids, a \in PayAmounts : PostPayment(p, "u1", i, a, MaxCalls)
  \/ \E p \in Pair, i \in ids, a \in UpdateAmounts : PutInvoice(p, "u1", i, "amount", a, MaxCalls)
  \/ \E p \in Pair : GenerateStep(p)
  \/ \E p \in Pair : PaymentStep(p)
  \/ \E p \in Pair : UpdateInvoiceRow(p)

SpecPayUpdate == Init /\ [][NextPayUpdate]_vars

\* every id handed out so far, and the next one, which names no record yet
anyIds == 1..nextId

\* creates and deletes of invoices and payments naming any id, one request
\* at a time
NextPayAny ==
  \/ \E p \in Sequential, u \in Users, a \in Amounts :
       PostInvoice(p, u, NoNumber, 0, a, MaxSeqCalls)
  \/ \E p \in Sequential, u \in Users, i \in anyIds, a \in PayAmounts :
       PostPayment(p, u, i, a, MaxSeqCalls)
  \/ \E p \in Sequential, u \in Users, i \in ids : DeleteInvoice(p, u, i, MaxSeqCalls)
  \/ \E p \in Sequential : GenerateStep(p)
  \/ \E p \in Sequential : PaymentStep(p)
  \/ \E p \in Sequential : DeleteStep(p)

SpecPayAny == Init /\ [][NextPayAny]_vars

\* the tenants' customers, invoices and expenses, one request at a time;
\* an invoice may be moved to any customer id
NextTenant ==
  \/ \E p \in Sequential, u \in Users, a \in Amounts :
       PostInvoice(p, u, NoNumber, 0, a, MaxSeqCalls)
  \/ \E p \in Sequential, u \in Users, i \in ids, c \in {c.id : c \in customers} :
       PutInvoice(p, u, i, "customerId", c, MaxSeqCalls)
  \/ \E p \in Sequential, u \in Users, c \in {c.id : c \in customers} :
       DeleteCustomer(p, u, c, MaxSeqCalls)
  \/ \E p \in Sequential, u \in Users, a \in Amounts : PostExpense(p, u, a, 0, 0, MaxSeqCalls)
  \/ \E p \in Sequential, u \in Users, e \in {e.id : e \in expenses} :
       DeleteExpense(p, u, e, MaxSeqCalls)
  \/ \E p \in Sequential : GenerateStep(p)
  \/ \E p \in Sequential : UpdateInvoiceRow(p)
  \/ \E p \in Sequential : HasCustomerInvoices(p) \/ DeleteCustomerRow(p)
  \/ \E p \in Sequential : CreateExpense(p) \/ DeleteExpenseRow(p)

SpecTenant == Init /\ [][NextTenant]_vars

\* the bodies of POST /api/invoices: with or without newCustomerName, a
\* customer reference or none, a positive amount or not
InvoiceBodies ==
  {[newCustomerName |-> n, customerId |-> c, number |-> NoNumber, issueYear |-> 0,
    issueMonth |-> 0, amount |-> a] :
     n \in BOOLEAN, c \in {0} \cup {c.id : c \in customers}, a \in {0} \cup Amounts}

\* create-invoice and record-payment requests with valid and invalid
\* bodies, one request at a time
NextValidate ==
  \/ \E p \in Sequential, u \in Users, body \in InvoiceBodies :
       PostInvoiceBody(p, u, body, MaxSeqCalls)
  \/ \E p \in Sequential, u \in Users, i \in {0} \cup ids, a \in {0} \cup PayAmounts :
       PostPayment(p, u, i, a, MaxSeqCalls)
  \/ \E p \in Sequential : CreateCustomerForInvoice(p) \/ RejectInvoice(p) \/ RejectPayment(p)
  \/ \E p \in Sequential : GenerateStep(p)
  \/ \E p \in Sequential : PaymentStep(p)

SpecValidate == Init /\ [][NextValidate]_vars

\* invoices and expenses of either tenant, with and without dates, and the
\* first tenant's payments and dashboard for any month and year, one
\* request at a time
NextLedger ==
  \/ \E p \in Sequential, u \in Users, y \in {0, 2026}, a \in Amounts :
       PostInvoice(p, u, NoNumber, y, a, MaxSeqCalls)
  \/ \E p \in Sequential, u \in Users, y \in {0, 2025}, a \in ExpenseAmounts :
       PostExpense(p, u, a, y, IF y = 0 THEN 0 ELSE 1, MaxSeqCalls)
  \/ \E p \in Sequential, i \in ids, a \in PayAmounts :
       PostPayment(p, "u1", i, a, MaxSeqCalls)
  \/ \E p \in Sequential, y \in {0} \cup Years, m \in {0} \cup Months :
       GetDashboard(p, "u1", y, m, MaxSeqCalls)
  \/ \E p \in Sequential : GenerateStep(p)
  \/ \E p \in Sequential : CreateExpense(p)
  \/ \E p \in Sequential : PaymentStep(p)
  \/ \E p \in Sequential : DashboardInvoices(p) \/ DashboardExpenses(p) \/ DashboardPayments(p)

SpecLedger == Init /\ [][NextLedger]_vars

\* expenses of any category and the two expense analytics, one request at
\* a time
NextCategory ==
  \/ \E p \in Sequential, u \in Users, c \in Categories, a \in ExpenseAmounts :
       \/ PostExpenseIn(p, u, c, a, 0, 0, MaxSeqCalls)
       \/ PostExpenseIn(p, u, c, a, 2026, 1, MaxSeqCalls)
  \/ \E p \in Sequential, u \in Users, y \in {0} \cup Years, m \in {0} \cup Months :
       GetExpensesByCategory(p, u, y, m, MaxSeqCalls)
  \/ \E p \in Sequential : CreateExpense(p)
  \/ \E p \in Sequential : CategoryExpenses(p)

SpecCategory == Init /\ [][NextCategory]_vars

\* two clients: invoices of either tenant, the first tenant's expenses and
\* payments, and the dashboard of either tenant for one month, while the
\* clock may pass into the next year
NextDash ==
  \/ \E p \in Pair, u \in Users, a \in Amounts :
       PostInvoice(p, u, NoNumber, 0, a, MaxCalls)
  \/ \E p \in Pair, a \in ExpenseAmounts : PostExpense(p, "u1", a, 0, 0, MaxCalls)
  \/ \E p \in Pair, i \in ids, a \in {1} : PostPayment(p, "u1", i, a, MaxCalls)
  \/ \E p \in Pair, u \in Users : GetDashboard(p, u, 2026, 1, MaxCalls)
  \/ \E p \in Pair : GenerateStep(p)
  \/ \E p \in Pair : CreateExpense(p)
  \/ \E p \in Pair : PaymentStep(p)
  \/ \E p \in Pair : DashboardInvoices(p) \/ DashboardExpenses(p) \/ DashboardPayments(p)
  \/ NewYear

SpecDash == Init /\ [][NextDash]_vars

\* invoices of either tenant with and without due dates, the first
\* tenant's payments and amount edits, and its reports page, one request
\* at a time
NextAging ==
  \/ \E p \in Sequential, a \in Amounts, d \in DueDates :
       \/ PostInvoiceDue(p, "u1", a, d, MaxSeqCalls)
       \/ PostInvoiceDue(p, "u2", a, 58, MaxSeqCalls)
  \/ \E p \in Sequential, i \in ids, a \in PayAmounts : PostPayment(p, "u1", i, a, MaxSeqCalls)
  \/ \E p \in Sequential, i \in ids, a \in UpdateAmounts :
       PutInvoice(p, "u1", i, "amount", a, MaxSeqCalls)
  \/ \E p \in Sequential : OpenReports(p, "u1", Today, MaxSeqCalls)
  \/ \E p \in Sequential : GenerateStep(p)
  \/ \E p \in Sequential : PaymentStep(p)
  \/ \E p \in Sequential : UpdateInvoiceRow(p)
  \/ \E p \in Sequential : AgingInvoices(p)

SpecAging == Init /\ [][NextAging]_vars

\* every client issues one create without a number for the first tenant,
\* the creates overlapping freely; no other request
NextRetry ==
  \/ \E p \in Procs, a \in Amounts :
       /\ resp[p].for = "none"
       /\ PostInvoice(p, "u1", NoNumber, 0, a, MaxCalls)
  \/ \E p \in Procs : GenerateStep(p)

SpecRetry == Init /\ [][NextRetry]_vars

\* the event loop runs every continuation that is ready and the store
\* answers every statement: a handler that can step is not left waiting
SpecRetryFair == SpecRetry /\ \A p \in Procs : WF_vars(GenerateStep(p))

\* one tenant's creates, payments and edits through the edit form with
\* the amount left as it is, one request at a time
NextEdit ==
  \/ \E p \in Sequential, a \in Amounts : PostInvoice(p, "u1", NoNumber, 0, a, MaxSeqCalls)
  \/ \E p \in Sequential, i \in ids, a \in PayAmounts : PostPayment(p, "u1", i, a, MaxSeqCalls)
  \/ \E p \in Sequential, i \in invoices : PutInvoice(p, "u1", i.id, "form", i.amount, MaxSeqCalls)
  \/ \E p \in Sequential : GenerateStep(p)
  \/ \E p \in Sequential : PaymentStep(p)
  \/ \E p \in Sequential : UpdateInvoiceRow(p)

SpecEdit == Init /\ [][NextEdit]_vars

\* two clients of one tenant: creates for its customer and deletes of the
\* customer, overlapping freely
NextCustomerRace ==
  \/ \E p \in Pair, a \in Amounts : PostInvoice(p, "u1", NoNumber, 0, a, MaxCalls)
  \/ \E p \in Pair, c \in {c.id : c \in customers} : DeleteCustomer(p, "u1", c, MaxCalls)
  \/ \E p \in Pair : GenerateStep(p)
  \/ \E p \in Pair : HasCustomerInvoices(p) \/ DeleteCustomerRow(p)

SpecCustomerRace == Init /\ [][NextCustomerRace]_vars

\* one tenant's creates without a number, for its customer or for a
\* customer it does not have, and its deletes, each given to MemStorage
\* and then to the server, one at a time; the clock may pass New Year
NextMem ==
  \/ \E c \in {c.id : c \in customers} : MemCreateInvoice("u1", c, MaxSeqCalls)
  \/ \E i \in mem.invoices : MemDeleteInvoice("u1", i.number, MaxSeqCalls)
  \/ \E p \in Sequential : SameCreateInvoice(p, MaxSeqCalls) \/ SameDeleteInvoice(p, MaxSeqCalls)
  \/ \E p \in Sequential : GenerateStep(p)
  \/ \E p \in Sequential : DeleteStep(p)
  \/ inStep /\ NewYear

SpecMem == Init /\ [][NextMem]_vars

(* ------------------------------- claims -------------------------------- *)

idle == \A p \in Procs : pc[p] = "idle"

\* the entries of issuedLog for the generated numbers of one tenant and year
generatedIn(u, y) ==
  {k \in 1..Len(issuedLog) :
     issuedLog[k].generated /\ issuedLog[k].userId = u /\ issuedLog[k].number.year = y}

\* the numeric value of the suffix of the k-th number issued
seqOf(k) == castSuffix(issuedLog[k].number)

\* C1: whatever the interleaving of createInvoice calls with and without a
\* number, no two persisted invoices of one tenant have the same number.
C1_UniquePerTenant ==
  \A i, j \in invoices : (i.userId = j.userId /\ i.number = j.number) => i.id = j.id

\* C1 witness: a generated number collided with a concurrent insert and the
\* call got its invoice on a later attempt, next to an invoice of the tenant.
C1_Witness ==
  \E p \in Procs :
    /\ resp[p].for = "generate" /\ resp[p].status = 201 /\ resp[p].attempts >= 2
    /\ \E i, j \in invoices : i.userId = j.userId /\ i.id # j.id

\* C2: when every createInvoice call issued (none with a number, nothing
\* deleted) has returned an invoice, the sequence numbers issued to a tenant
\* in a year are pairwise distinct and exactly 1..N, formatted FT-<year>-00N.
C2_ExactlyOneToN ==
  (idle /\ Len(issuedLog) = calls) =>
    \A u \in Users, y \in Years :
      /\ {seqOf(k) : k \in generatedIn(u, y)} = 1..Cardinality(generatedIn(u, y))
      /\ \A k \in generatedIn(u, y) :
           issuedLog[k].number = [year |-> y, digits |-> <<0, 0, seqOf(k)>>]

\* C2 witness: three calls of one tenant overlapped (one of them lost two
\* races), all returned, and the tenant holds three numbers.
C2_Witness ==
  /\ idle /\ Len(issuedLog) = calls
  /\ \E p \in Procs : resp[p].status = 201 /\ resp[p].attempts >= 3
  /\ \E u \in Users, y \in Years : Cardinality(generatedIn(u, y)) >= 3

\* C3: a createInvoice call without a number makes at most maxRetries
\* attempts and ends with its invoice, or with the fatal "unable to generate
\* a unique number" error; no other outcome.
C3_TwoOutcomes ==
  \A p \in Procs :
    resp[p].for = "generate" =>
      /\ resp[p].attempts <= maxRetries
      /\ \/ resp[p].status = 201
         \/ /\ resp[p].status = 500
            /\ resp[p].error = "Fatura numarasi olusturulurken hata olustu"
            /\ resp[p].attempts = maxRetries

maxSuffix(u, y) ==
  LET vs == {castSuffix(i.number) : i \in {r \in invoices : r.userId = u /\ r.number.year = y}}
  IN IF vs = {} THEN 0 ELSE CHOOSE m \in vs : \A v \in vs : v <= m

C6_MaxPlusOne ==
  [][\A p \in Procs :
       (pc[p] = "ci_insert" /\ resp'[p].status = 201) =>
         \E i \in invoices' \ invoices :
           /\ i.userId = req[p].userId
           /\ i.number.year = loc[p].currentYear
           /\ castSuffix(i.number) = 1 + maxSuffix(req[p].userId, loc[p].currentYear)]_vars

\* C6 witness: after the only invoice of a tenant and year was deleted, with
\* another tenant's and another year's invoices in the table, the next
\* generated number is 1 again.
C6_Witness ==
  \E k \in 1..Len(issuedLog) :
    /\ issuedLog[k].generated /\ issuedLog[k].reissued /\ seqOf(k) = 1
    /\ \E i \in invoices : i.number = issuedLog[k].number /\ i.userId = issuedLog[k].userId
    /\ \E i \in invoices : i.userId # issuedLog[k].userId \/ i.number.year # issuedLog[k].number.year

\* C7: the year of a generated number is the year of the invoice's issue date.
C7_YearIsIssueYear ==
  \A k \in 1..Len(issuedLog) :
    issuedLog[k].generated => issuedLog[k].number.year = issuedLog[k].issueYear

\* C8: createInvoice with a number makes one insert; when the tenant already
\* has the number, the caller gets a validation error (400), not the
\* response of an unexpected failure (500).
C8_CollisionIsValidationError ==
  \A p \in Procs :
    resp[p].for = "explicit" =>
      /\ resp[p].attempts = 1
      /\ resp[p].status \in {201, 400}

RECURSIVE total(_)
\* the sum of the amounts of a set of payments
total(ps) == IF ps = {} THEN 0 ELSE LET q == CHOOSE q \in ps : TRUE IN q.amount + total(ps \ {q})

\* C9: when payment requests are handled one at a time, the request that
\* completes leaves the invoice's paid_amount equal to the sum of the amounts
\* of all payments stored for the invoice.
C9_PaidIsSum ==
  [][\A p \in Procs :
       (pc[p] = "pay_update" /\ resp'[p].status = 201) =>
         \A i \in invoices' :
           i.id = req[p].invoiceId =>
             i.paidAmount = total({q \in payments' : q.invoiceId = i.id})]_vars

\* C9 witness: two payments were recorded in turn on one invoice, which
\* carries their sum.
C9_Witness ==
  /\ idle
  /\ \E p \in Procs : resp[p].for = "payment" /\ resp[p].status = 201
  /\ \E i \in invoices :
       /\ Cardinality({q \in payments : q.invoiceId = i.id}) >= 2
       /\ i.paidAmount = total({q \in payments : q.invoiceId = i.id})

\* C10: once payment requests that overlapped on one invoice have all
\* completed, the invoice's paid_amount is the sum of all its payments.
C10_NoLostUpdate ==
  idle => \A i \in invoices : i.paidAmount = total({q \in payments : q.invoiceId = i.id})

C11_WitnessAmount ==
  \E i \in invoices : i.paidAmount = i.amount /\ i.status = "paid" /\ i.amount > 1

C11_WitnessBelow ==
  \E i \in invoices : i.paidAmount = i.amount - 1 /\ i.status = "partial"

C11_WitnessAbove ==
  \E i \in invoices : i.paidAmount = i.amount + 1 /\ i.status = "paid"

\* the status the specification derives from paid_amount and amount
statusOf(paidAmount, amount) ==
  IF paidAmount = 0 THEN "unpaid" ELSE IF paidAmount < amount THEN "partial" ELSE "paid"

\* C12: when a payment request completes, the invoice's persisted status is
\* the status derived from its persisted paid_amount and persisted amount,
\* whatever payment and update requests ran alongside.
C12_StatusMatchesPersisted ==
  [][\A p \in Procs :
       (pc[p] = "pay_update" /\ resp'[p].status = 201) =>
         \A i \in invoices' :
           i.id = req[p].invoiceId => i.status = statusOf(i.paidAmount, i.amount)]_vars

\* C13: whatever payments were recorded on it, an invoice's paid_amount is
\* at most its amount.
C13_NeverOverpaid == \A i \in invoices : i.paidAmount <= i.amount

\* C14: a payment request naming an invoice that does not exist or belongs
\* to another tenant is answered with an error, stores no payment and
\* leaves every invoice as it was.
C14_ForeignInvoiceRejected ==
  [][\A p \in Procs :
       ( /\ pc[p] = "pay_verify"
         /\ ~\E i \in invoices : i.id = req[p].invoiceId /\ i.userId = req[p].userId )
       => /\ resp'[p].for = "payment" /\ resp'[p].status >= 400
          /\ payments' = payments
          /\ invoices' = invoices]_vars

\* C14 witness: a payment naming another tenant's invoice was refused, the
\* invoice is there and has no payment.
C14_Witness ==
  /\ \E p \in Procs : resp[p].for = "payment" /\ resp[p].status = 500
  /\ \E i \in invoices : i.paidAmount = 0 /\ i.status = "unpaid"
  /\ payments = {}

\* C15: a payment and the invoice total that includes it become visible
\* together: in no state does the payments table hold a row that the
\* invoice's paid_amount leaves out.
C15_VisibleTogether ==
  \A i \in invoices : i.paidAmount >= total({q \in payments : q.invoiceId = i.id})

\* C16: a storage operation given the id of another tenant's record reports
\* what it reports for an id that names nothing.
C16_ForeignAsMissing ==
  \A op \in StorageOps, u \in Users :
    \A r \in tableOf(op) :
      r.userId # u => storageResult(op, r.id, u) = storageResult(op, nextId, u)

\* C17: deleting a customer for which the tenant has an invoice fails with
\* the domain error and changes nothing; deleting a customer of the tenant
\* that no invoice references removes that customer and nothing else.
C17_DeleteCustomer ==
  [][\A p \in Procs :
       /\ ( /\ pc[p] = "dc_hasInvoices"
            /\ \E i \in invoices : i.customerId = req[p].id /\ i.userId = req[p].userId )
          => /\ resp'[p].status = 400 /\ resp'[p].error = "Bu musteriyi silemezsiniz"
             /\ UNCHANGED <<customers, invoices, payments, expenses>>
       /\ ( /\ pc[p] \in {"dc_hasInvoices", "dc_delete"}
            /\ pc'[p] = "idle"
            /\ \E c \in customers : c.id = req[p].id /\ c.userId = req[p].userId
            /\ ~\E i \in invoices : i.customerId = req[p].id )
          => /\ resp'[p].status = 200
             /\ customers' = {c \in customers : c.id # req[p].id}
             /\ UNCHANGED <<invoices, payments, expenses>>]_vars

\* C17 witness: one customer was deleted, and the delete of a customer with
\* an invoice was refused.
C17_Witness ==
  /\ \E p \in Procs : resp[p].for = "deleteCustomer" /\ resp[p].status = 400
  /\ \E c \in SeedCustomers : c \notin customers
  /\ \E i \in invoices : \E c \in customers : c.id = i.customerId

\* C18: deleteInvoice removes the invoice's payments and the invoice as one
\* unit: in no state have payments of an invoice been removed by a delete
\* while the invoice is still in the table.
C18_DeleteIsAtomic ==
  \A p \in Procs :
    loc[p].deletedPayments # {} => ~\E i \in invoices : i.id = req[p].invoiceId

\* the data of the request fails validation: a non-positive amount, or no
\* customer (named or to be created), or no invoice
failsValidation(request) ==
  CASE request.op = "createInvoice" ->
         request.amount <= 0 \/ (request.customerId = 0 /\ ~request.newCustomerName)
    [] request.op = "payment" -> request.amount <= 0 \/ request.invoiceId = 0
    [] OTHER -> FALSE

\* C19: no step of a create-invoice or record-payment request whose data
\* fails validation changes a table.
C19_RejectedBeforeMutation ==
  [][\A p \in Procs :
       (pc[p] # "idle" /\ failsValidation(req[p])) =>
         UNCHANGED <<customers, invoices, payments, expenses>>]_vars

\* the amounts of the tenant's invoices issued, and of its expenses dated,
\* in the months of a year
invoicedIn(u, y, ms) ==
  total({i \in invoices : i.userId = u /\ i.issueYear = y /\ i.issueMonth \in ms})

expensedIn(u, y, ms) ==
  total({e \in expenses : e.userId = u /\ e.year = y /\ e.month \in ms})

\* C20: the dashboard's monthly and yearly profit are its invoice total less
\* its expense total, the totals being those of the tenant's invoices (by
\* issue date) and expenses (by date) in the period; no step of a payment
\* request changes them.
C20_ProfitIsInvoicedLessExpensed ==
  [][\A p \in Procs :
       /\ pc[p] = "an_payments" =>
            LET d == dash'[p]
                u == req[p].userId
                y == req[p].year
                m == req[p].month
            IN /\ d.monthly.invoices = invoicedIn(u, y, {m})
               /\ d.monthly.expenses = expensedIn(u, y, {m})
               /\ d.monthly.profit = invoicedIn(u, y, {m}) - expensedIn(u, y, {m})
               /\ d.yearly.invoices = invoicedIn(u, y, 1..12)
               /\ d.yearly.expenses = expensedIn(u, y, 1..12)
               /\ d.yearly.profit = invoicedIn(u, y, 1..12) - expensedIn(u, y, 1..12)
       /\ req[p].op = "payment" =>
            \A u \in Users, y \in Years, m \in Months :
              /\ invoicedIn(u, y, {m})' = invoicedIn(u, y, {m})
              /\ expensedIn(u, y, {m})' = expensedIn(u, y, {m})
              /\ invoicedIn(u, y, 1..12)' = invoicedIn(u, y, 1..12)
              /\ expensedIn(u, y, 1..12)' = expensedIn(u, y, 1..12)]_vars

\* C20 witness: with an invoice, an expense and a payment in the ledger the
\* dashboard answered with a monthly profit that differs from the yearly.
C20_Witness ==
  \E p \in Procs :
    /\ resp[p].for = "dashboard" /\ resp[p].status = 200
    /\ payments # {}
    /\ dash[p].monthly.expenses > 0
    /\ dash[p].yearly.invoices > 0
    /\ dash[p].monthly.profit # dash[p].yearly.profit

RECURSIVE balance(_)
\* the sum of amount - paid_amount over a set of invoices
balance(rows) ==
  IF rows = {} THEN 0
  ELSE LET i == CHOOSE i \in rows : TRUE
       IN (i.amount - i.paidAmount) + balance(rows \ {i})

\* C21: whatever month and year are asked, the dashboard's receivables are
\* the sum of amount - paid_amount over the tenant's invoices whose status
\* is unpaid or partial; an invoice that is paid contributes nothing.
C21_ReceivablesAreOutstanding ==
  [][\A p \in Procs :
       pc[p] = "an_payments" =>
         dash'[p].receivables =
           balance({i \in invoices : /\ i.userId = req[p].userId
                                      /\ i.status \in {"unpaid", "partial"}})]_vars

\* C21 witness: an invoice of 3 was paid by payments of 1 and 2, and the
\* dashboard answered its tenant with receivables of 0.
C21_Witness ==
  \E p \in Procs, i \in invoices :
    /\ resp[p].for = "dashboard" /\ resp[p].status = 200
    /\ i.status = "paid" /\ i.amount = 3
    /\ {q.amount : q \in paymentsOf(payments, i.id)} = {1, 2}
    /\ \A j \in invoices : j.userId = i.userId
    /\ dash[p].receivables = 0

\* C21 witness: after one payment of 1 the invoice of 3 is partial and the
\* receivables are its balance of 2.
C21_WitnessPartial ==
  \E p \in Procs, i \in invoices :
    /\ resp[p].for = "dashboard" /\ resp[p].status = 200
    /\ i.status = "partial" /\ i.paidAmount = 1
    /\ dash[p].receivables = 2

RECURSIVE totalOfEntries(_)
\* the sum of the totals of the entries of a by-category body
totalOfEntries(body) ==
  IF DOMAIN body = {} THEN 0
  ELSE LET c == CHOOSE c \in DOMAIN body : TRUE
       IN body[c].total + totalOfEntries([d \in DOMAIN body \ {c} |-> body[d]])

\* C22: the by-category body has an entry exactly for every category of the
\* tenant's expenses dated in the month asked, with the sum and the number
\* of those expenses, and its totals add up to the month's expense total.
C22_TotalsPerCategory ==
  [][\A p \in Procs :
       pc[p] = "ec_expenses" =>
         LET body == categoryTotals'[p]
             rows == {e \in expenses : /\ e.userId = req[p].userId
                                       /\ e.year = req[p].year
                                       /\ e.month = req[p].month}
         IN /\ DOMAIN body = {e.category : e \in rows}
            /\ \A c \in DOMAIN body :
                 /\ body[c].total = total({e \in rows : e.category = c})
                 /\ body[c].count = Cardinality({e \in rows : e.category = c})
            /\ totalOfEntries(body) = expensedIn(req[p].userId, req[p].year, {req[p].month})]_vars

\* slots p and q were answered a dashboard for the same tenant, month and
\* year, and read the same invoices, expenses and payments
sameCall(p, q) ==
  /\ resp[p].for = "dashboard" /\ resp[p].status = 200
  /\ resp[q].for = "dashboard" /\ resp[q].status = 200
  /\ dashLog[p] = dashLog[q]

\* slot p takes a step of a dashboard request
dashboardStep(p) ==
  /\ pc'[p] # pc[p]
  /\ pc[p] \in {"an_invoices", "an_expenses", "an_payments"} \/ pc'[p] = "an_invoices"

daysOverdue(i, today) == (today - i.dueDate) \div DayMs

\* the tenant's invoices that belong in the aging report: not paid, a due
\* date earlier than today, a positive remaining balance
overdue(u, today) ==
  {i \in invoices : /\ i.userId = u
                    /\ i.status # "paid"
                    /\ i.dueDate # NoDate /\ i.dueDate < today
                    /\ i.amount - i.paidAmount > 0}

\* C24: the report holds only overdue invoices; those 10 to 20 days overdue
\* are the first bucket, those more than 20 days overdue the second, none
\* is in both, and an invoice without a due date is in neither.
C24_AgingBuckets ==
  [][\A p \in Procs :
       pc[p] = "ag_invoices" =>
         LET u == req[p].userId
             today == req[p].today
             first == {r.id : r \in agingData'[p].overdue10to20}
             second == {r.id : r \in agingData'[p].overdue20plus}
         IN /\ first = {i.id : i \in {j \in overdue(u, today) :
                                         /\ daysOverdue(j, today) >= 10
                                         /\ daysOverdue(j, today) <= 20}}
            /\ second = {i.id : i \in {j \in overdue(u, today) :
                                          daysOverdue(j, today) > 20}}
            /\ first \cap second = {}
            /\ \A i \in invoices : i.dueDate = NoDate => i.id \notin first \cup second]_vars

\* the place of a status along unpaid -> partial -> paid
rank(status) == CASE status = "unpaid" -> 0 [] status = "partial" -> 1 [] status = "paid" -> 2

\* C25: no step of overlapping payment requests writes an invoice's status
\* back: once partial it is not unpaid again, once paid it stays paid.
C25_StatusOnlyForward ==
  [][\A i \in invoices : \A j \in invoices' :
       j.id = i.id => rank(j.status) >= rank(i.status)]_vars

\* C26: every one of the overlapping creates without a number of one tenant
\* eventually returns its persisted invoice.
C26_EveryCallReturnsInvoice ==
  \A p \in Procs :
    (req[p].op = "createInvoice") ~>
      (resp[p].status = 201 /\ \E i \in invoices : i.userId = "u1" /\ i.number # NoNumber)

\* C26, the part about the attempts: no create ends having used up its
\* attempts, and none ends without an invoice.
C26_NoneExhausts ==
  \A p \in Procs :
    resp[p].for = "generate" => resp[p].status = 201 /\ resp[p].attempts < maxRetries

\* C27: whenever no request is in progress, every invoice's paid_amount is
\* the sum of its stored payments and its status is the one the derivation
\* rule gives for that paid_amount and its amount.
C27_EditKeepsPaymentFields ==
  idle =>
    \A i \in invoices :
      /\ i.paidAmount = total(paymentsOf(payments, i.id))
      /\ i.status = statusOf(i.paidAmount, i.amount)

\* C28: every invoice whose customer reference is set refers to a customer
\* of the invoice's own tenant.
C28_CustomerOfSameTenant ==
  \A i \in invoices :
    i.customerId # 0 => \E c \in customers : c.id = i.customerId /\ c.userId = i.userId

\* C29: no invoice references a customer that is not in the customers
\* table, and a step that removes a customer removes one that no invoice
\* references.
C29_NoInvoiceOfDeletedCustomer ==
  /\ [](\A i \in invoices : i.customerId # 0 => \E c \in customers : c.id = i.customerId)
  /\ [][\A c \in customers \ customers' : \A i \in invoices : i.customerId # c.id]_vars

\* C29 witness: the delete passed its check for invoices and the create its
\* check for the customer; the insert came first and the delete failed.
C29_Witness ==
  \E p, q \in Procs :
    /\ resp[p].for = "deleteCustomer" /\ resp[p].status = 500
    /\ resp[q].for = "generate" /\ resp[q].status = 201
    /\ Cardinality(invoices) = 1
    /\ \A i \in invoices : \E c \in customers : c.id = i.customerId

\* C29 witness: the delete came first and the insert failed.
C29_WitnessDeleteFirst ==
  \E p, q \in Procs :
    /\ resp[p].for = "deleteCustomer" /\ resp[p].status = 200
    /\ resp[q].for = "generate" /\ resp[q].status = 400
    /\ invoices = {}

\* C30: when a create without a number has been run on both storages, the
\* invoice PostgreSQLStorage created has the number MemStorage assigned.
C30_SameNumbers ==
  (inStep /\ mem.pending.op = "createInvoice") =>
    \A p \in Sequential :
      resp[p].status = 201 => issuedLog[Len(issuedLog)].number = mem.pending.number

====
